---- MODULE Spec2Model ----
(***************************************************************************)
(* A model of tensor2tensor/tpu/tpu_trainer_lib.py: the run-configuration  *)
(* builder, the estimator builder, the experiment assembler, the           *)
(* experiment-function factory and the problem-hyperparameter attacher.    *)
(*                                                                         *)
(* Python strings that the code inspects character by character (the       *)
(* schedule label, the hyphen-delimited problem string) are sequences of   *)
(* one-character strings.  Python dicts and framework objects are records; *)
(* a key or attribute that was never set is a field that is not in the     *)
(* record's DOMAIN.  A value that may be None is None (the empty tuple) or  *)
(* Some(v) (a one-element tuple).                                          *)
(***************************************************************************)
EXTENDS Integers, Sequences, FiniteSets, TLC

VARIABLES
    hparams,   \* the caller-owned hyperparameters object (mutated in place)
    closure,   \* the callable last returned by create_experiment_fn
    call,      \* the call the driver makes: [op, args]
    result     \* what that call returned or raised

vars == <<hparams, closure, call, result>>

(***************************************************************************)
(* Bounds of the model.                                                    *)
(***************************************************************************)
MaxShards == 9
MaxGpus == 2
MaxReplicas == 2
MaxSchedLen == 4
MaxProblemLen == 3

(***************************************************************************)
(* Python values.                                                          *)
(***************************************************************************)
None == <<>>
Some(v) == <<v>>

NoError == "None"
NoObject == [cls |-> "NoneType"]

Max(a, b) == IF a >= b THEN a ELSE b

\* int(b) for a Python bool
IntOfBool(b) == IF b THEN 1 ELSE 0

\* pat in s, for Python strings as character sequences
Contains(s, pat) ==
    \E i \in 1..(Len(s) - Len(pat) + 1) : SubSeq(s, i, i + Len(pat) - 1) = pat

(***************************************************************************)
(* create_run_config                                                       *)
(***************************************************************************)
\* tf.ConfigProto(allow_soft_placement=True, log_device_placement=...)
ConfigProto(log_device_placement) ==
    [allow_soft_placement |-> TRUE, log_device_placement |-> log_device_placement]

\* TPUConfig with the two counts passed in each other's place
TPUConfig_swapped(iterations_per_loop, num_shards) ==
    [iterations_per_loop |-> num_shards,
     num_shards |-> iterations_per_loop,
     per_host_input_for_training |-> (num_shards <= 8)]

\* tf.contrib.tpu.TPUConfig(...)
TPUConfig(iterations_per_loop, num_shards) ==
    [iterations_per_loop |-> iterations_per_loop,
     num_shards |-> num_shards,
     per_host_input_for_training |-> (num_shards <= 8)]

\* the dict run_config_args as it stands when the configuration is constructed
run_config_args(a) ==
    LET base == [model_dir |-> a.model_dir,
                 session_config |-> ConfigProto(a.log_device_placement),
                 save_summary_steps |-> 0,
                 save_checkpoints_steps |-> a.save_checkpoints_steps]
    IN  IF a.use_tpu
        THEN [master |-> a.master,
              tpu_config |-> TPUConfig(a.iterations_per_loop, a.num_shards)] @@ base
        ELSE base

\* run_config_cls as it stands when the configuration is constructed
run_config_cls(a) ==
    IF a.use_tpu THEN "tf.contrib.tpu.RunConfig" ELSE "tf.estimator.RunConfig"

\* the device info with the CPU shard left out of the shard count
t2t_device_info_no_cpu_shard(a) ==
    IF ~a.use_tpu
    THEN [num_gpus |-> a.num_gpus,
          gpu_order |-> a.gpu_order,
          shard_to_cpu |-> a.shard_to_cpu,
          num_shards |-> Max(1, a.num_gpus),
          num_async_replicas |-> a.num_async_replicas]
    ELSE <<>>

\* the device info with the shard count left unclamped
t2t_device_info_unclamped(a) ==
    IF ~a.use_tpu
    THEN [num_gpus |-> a.num_gpus,
          gpu_order |-> a.gpu_order,
          shard_to_cpu |-> a.shard_to_cpu,
          num_shards |-> a.num_gpus + IntOfBool(a.shard_to_cpu),
          num_async_replicas |-> a.num_async_replicas]
    ELSE <<>>

\* the dict assigned to config.t2t_device_info
t2t_device_info(a) ==
    IF ~a.use_tpu
    THEN [num_gpus |-> a.num_gpus,
          gpu_order |-> a.gpu_order,
          shard_to_cpu |-> a.shard_to_cpu,
          num_shards |-> Max(1, a.num_gpus + IntOfBool(a.shard_to_cpu)),
          num_async_replicas |-> a.num_async_replicas]
    ELSE <<>>

\* the configuration create_run_config returns for the argument record a
create_run_config(a) ==
    [cls |-> run_config_cls(a),
     use_tpu |-> a.use_tpu,
     t2t_device_info |-> t2t_device_info(a)] @@ run_config_args(a)

(***************************************************************************)
(* create_estimator                                                        *)
(***************************************************************************)
\* t2t_model.T2TModel.make_estimator_model_fn(model_name, hparams, use_tpu=...)
make_estimator_model_fn(model_name, hp, use_tpu) ==
    [cls |-> "model_fn", model_name |-> model_name, use_tpu |-> use_tpu]

\* batch_size with the multiplication by the shard count left out
batch_size_per_shard_only(hp, run_config) ==
    hp.tpu_batch_size_per_shard

\* batch_size as it stands after "batch_size *= run_config.tpu_config.num_shards"
batch_size(hp, run_config) ==
    hp.tpu_batch_size_per_shard * run_config.tpu_config.num_shards

\* eval_batch_size suppressed unless the label begins with "eval"
eval_batch_size_prefix_only(hp, run_config, schedule) ==
    IF ~(Len(schedule) >= 4 /\ SubSeq(schedule, 1, 4) = <<"e", "v", "a", "l">>)
    THEN None
    ELSE Some(batch_size(hp, run_config) * 2)

\* eval_batch_size as it is passed to the accelerator estimator
eval_batch_size(hp, run_config, schedule) ==
    IF ~Contains(schedule, <<"e", "v", "a", "l">>)
    THEN None
    ELSE Some(batch_size(hp, run_config) * 2)

\* the outcome of create_estimator: the estimator built, or the error raised
create_estimator(model_name, hp, run_config, schedule, use_tpu) ==
    LET model_fn == make_estimator_model_fn(model_name, hp, use_tpu)
    IN  IF use_tpu
        THEN IF "tpu_config" \notin DOMAIN run_config
             THEN [value |-> NoObject, error |-> "AttributeError"]
             ELSE [value |-> [cls |-> "tf.contrib.tpu.TPUEstimator",
                              model_fn |-> model_fn,
                              model_dir |-> run_config.model_dir,
                              config |-> run_config,
                              train_batch_size |-> batch_size(hp, run_config),
                              eval_batch_size |->
                                  eval_batch_size(hp, run_config, schedule)],
                   error |-> NoError]
        ELSE [value |-> [cls |-> "tf.estimator.Estimator",
                         model_fn |-> model_fn,
                         model_dir |-> run_config.model_dir,
                         config |-> run_config],
              error |-> NoError]

(***************************************************************************)
(* add_problem_hparams                                                     *)
(***************************************************************************)
\* the names the global problem registry holds
RegisteredProblems == {<<"a">>, <<"b">>}

\* registry.problem(name): the problem registered under the name, or a lookup error
registry_problem(name) ==
    IF name \in RegisteredProblems
    THEN [value |-> [cls |-> "Problem", name |-> name], error |-> NoError]
    ELSE [value |-> NoObject, error |-> "LookupError"]

\* problem.get_hparams(hparams): the hyperparameters the problem derives
get_hparams(problem, hp) ==
    [cls |-> "ProblemHParams",
     problem |-> problem.name,
     data_dir |-> IF "data_dir" \in DOMAIN hp THEN Some(hp.data_dir) ELSE None]

\* s.split(sep) for a one-character separator
RECURSIVE Split(_, _)
Split(s, sep) ==
    IF \A i \in 1..Len(s) : s[i] # sep
    THEN <<s>>
    ELSE LET i == CHOOSE j \in 1..Len(s) :
                      s[j] = sep /\ \A k \in 1..(j - 1) : s[k] # sep
         IN  <<SubSeq(s, 1, i - 1)>> \o Split(SubSeq(s, i + 1, Len(s)), sep)

\* the loop emptying both lists when a lookup fails
RECURSIVE add_problem_loop_clears_on_error(_, _)
add_problem_loop_clears_on_error(hp, names) ==
    IF names = <<>>
    THEN [hparams |-> hp, error |-> NoError]
    ELSE LET problem == registry_problem(Head(names))
         IN  IF problem.error # NoError
             THEN [hparams |-> [hp EXCEPT !.problem_instances = <<>>,
                                          !.problems = <<>>],
                   error |-> problem.error]
             ELSE LET p_hparams == get_hparams(problem.value, hp)
                  IN  add_problem_loop_clears_on_error(
                          [hp EXCEPT !.problem_instances = Append(@, problem.value),
                                     !.problems = Append(@, p_hparams)],
                          Tail(names))

\* the for loop of add_problem_hparams over the names still to visit
RECURSIVE add_problem_loop(_, _)
add_problem_loop(hp, names) ==
    IF names = <<>>
    THEN [hparams |-> hp, error |-> NoError]
    ELSE LET problem == registry_problem(Head(names))
         IN  IF problem.error # NoError
             THEN [hparams |-> hp, error |-> problem.error]
             ELSE LET p_hparams == get_hparams(problem.value, hp)
                  IN  add_problem_loop(
                          [hp EXCEPT !.problem_instances = Append(@, problem.value),
                                     !.problems = Append(@, p_hparams)],
                          Tail(names))

\* add_problem_hparams appending to the lists the object already holds
add_problem_hparams_no_reset(hp, problems) ==
    add_problem_loop(hp @@ [problems |-> <<>>, problem_instances |-> <<>>],
                     Split(problems, "-"))

\* the outcome of add_problem_hparams: the object as mutated, and the error raised
add_problem_hparams(hp, problems) ==
    add_problem_loop([problems |-> <<>>, problem_instances |-> <<>>] @@ hp,
                     Split(problems, "-"))

(***************************************************************************)
(* create_experiment                                                       *)
(***************************************************************************)
\* hparams.add_hparam(name, value) for name = "data_dir"
add_hparam_data_dir(hp, data_dir) == [data_dir |-> data_dir] @@ hp

\* problem.make_estimator_input_fn(mode, hparams)
make_estimator_input_fn(problem, mode, hp) ==
    [cls |-> "input_fn", problem |-> problem.name, mode |-> mode]

\* tf.contrib.learn.Experiment(...) as create_experiment constructs it
Experiment(estimator, train_input_fn, eval_input_fn, p) ==
    [cls |-> "tf.contrib.learn.Experiment",
     estimator |-> estimator,
     train_input_fn |-> train_input_fn,
     eval_input_fn |-> eval_input_fn,
     train_steps |-> p.train_steps,
     eval_steps |-> p.eval_steps,
     min_eval_frequency |-> p.min_eval_frequency,
     train_steps_per_iteration |-> p.min_eval_frequency]

\* the last problem instance in place of the first
first_problem_instance_last(hp) == hp.problem_instances[Len(hp.problem_instances)]

\* hparams.problem_instances[0]
first_problem_instance(hp) == hp.problem_instances[1]

\* the locals of create_experiment before any of them is assigned
NoLocals ==
    [estimator |-> NoObject, train_input_fn |-> NoObject, eval_input_fn |-> NoObject]

\* create_experiment building the estimator before it attaches the problems
create_experiment_estimator_first(run_config, hp, p) ==
    LET hp1 == add_hparam_data_dir(hp, p.data_dir)
        estimator == create_estimator(p.model_name, hp1, run_config,
                                      p.schedule, p.use_tpu)
        added == add_problem_hparams(hp1, p.problem_name)
    IN  IF estimator.error # NoError
        THEN [value |-> NoObject, error |-> estimator.error,
              hparams |-> hp1, locals |-> NoLocals]
        ELSE IF added.error # NoError
        THEN [value |-> NoObject, error |-> added.error,
              hparams |-> added.hparams,
              locals |-> [NoLocals EXCEPT !.estimator = estimator.value]]
        ELSE
        LET problem == first_problem_instance(added.hparams)
            train_input_fn == make_estimator_input_fn(problem, "train", added.hparams)
            eval_input_fn == make_estimator_input_fn(problem, "eval", added.hparams)
        IN  [value |-> Experiment(estimator.value, train_input_fn,
                                  eval_input_fn, p),
             error |-> NoError,
             hparams |-> added.hparams,
             locals |-> [estimator |-> estimator.value,
                         train_input_fn |-> train_input_fn,
                         eval_input_fn |-> eval_input_fn]]

\* The outcome of the body of create_experiment for the bound parameters p: the
\* experiment returned or the error raised, the hyperparameters object as
\* mutated, and the locals assigned when the call ended.
create_experiment(run_config, hp, p) ==
    LET hp1 == add_hparam_data_dir(hp, p.data_dir)
        added == add_problem_hparams(hp1, p.problem_name)
    IN  IF added.error # NoError
        THEN [value |-> NoObject, error |-> added.error,
              hparams |-> added.hparams, locals |-> NoLocals]
        ELSE
        LET hp2 == added.hparams
            estimator == create_estimator(p.model_name, hp2, run_config,
                                          p.schedule, p.use_tpu)
        IN  IF estimator.error # NoError
            THEN [value |-> NoObject, error |-> estimator.error,
                  hparams |-> hp2, locals |-> NoLocals]
            ELSE
            LET problem == first_problem_instance(hp2)
                train_input_fn == make_estimator_input_fn(problem, "train", hp2)
                eval_input_fn == make_estimator_input_fn(problem, "eval", hp2)
            IN  [value |-> Experiment(estimator.value, train_input_fn,
                                      eval_input_fn, p),
                 error |-> NoError,
                 hparams |-> hp2,
                 locals |-> [estimator |-> estimator.value,
                             train_input_fn |-> train_input_fn,
                             eval_input_fn |-> eval_input_fn]]

\* the parameters of create_experiment after run_config and hparams, in order
ParamNames ==
    <<"model_name", "problem_name", "data_dir", "train_steps", "eval_steps",
      "min_eval_frequency", "schedule", "use_tpu">>

ParamNameSet == {ParamNames[i] : i \in 1..Len(ParamNames)}

\* the parameters of create_experiment that have no default
RequiredParams ==
    {"model_name", "problem_name", "data_dir", "train_steps", "eval_steps",
     "min_eval_frequency"}

\* the defaults of create_experiment's signature
DefaultParams ==
    [schedule |-> <<"t", "r", "a", "i", "n", "_", "a", "n", "d", "_",
                    "e", "v", "a", "l", "u", "a", "t", "e">>,
     use_tpu |-> TRUE]

\* Python's binding of create_experiment(run_config, hparams, *args, **kwargs)
\* to the signature: the bound parameters, or the TypeError of a bad call.
bind_parameters(args, kwargs) ==
    LET n == Len(args)
        given(i) == i <= n \/ ParamNames[i] \in DOMAIN kwargs
    IN  IF \/ n > Len(ParamNames)
           \/ \E k \in DOMAIN kwargs : k \notin ParamNameSet
           \/ \E i \in 1..n : ParamNames[i] \in DOMAIN kwargs
           \/ \E i \in 1..Len(ParamNames) :
                  ParamNames[i] \in RequiredParams /\ ~given(i)
        THEN [error |-> "TypeError", params |-> <<>>]
        ELSE [error |-> NoError,
              params |-> [name \in ParamNameSet |->
                  LET i == CHOOSE j \in 1..Len(ParamNames) : ParamNames[j] = name
                  IN  IF i <= n THEN args[i]
                      ELSE IF name \in DOMAIN kwargs THEN kwargs[name]
                      ELSE DefaultParams[name]]]

\* the outcome of the call create_experiment(run_config, hparams, *args, **kwargs)
call_create_experiment(run_config, hp, args, kwargs) ==
    LET bound == bind_parameters(args, kwargs)
    IN  IF bound.error # NoError
        THEN [value |-> NoObject, error |-> bound.error,
              hparams |-> hp, locals |-> NoLocals]
        ELSE create_experiment(run_config, hp, bound.params)

(***************************************************************************)
(* create_experiment_fn                                                    *)
(***************************************************************************)
\* the callable create_experiment_fn(*args, **kwargs) returns
create_experiment_fn(args, kwargs) ==
    [cls |-> "function", name |-> "experiment_fn", args |-> args, kwargs |-> kwargs]

\* experiment_fn forwarding the captured positional arguments only
experiment_fn_drops_kwargs(fn, run_config, hp) ==
    call_create_experiment(run_config, hp, fn.args, <<>>)

\* the outcome of calling the inner function experiment_fn(run_config, hparams)
\* of the callable fn
experiment_fn(fn, run_config, hp) ==
    call_create_experiment(run_config, hp, fn.args, fn.kwargs)

(***************************************************************************)
(* The driver: the arguments it passes, and the calls it makes.            *)
(***************************************************************************)
\* all character sequences over the alphabet of length at most n
SeqsUpTo(alphabet, n) == UNION {[1..k -> alphabet] : k \in 0..n}

\* the defaults of create_run_config's signature
DefaultRunConfigArgs ==
    [master |-> "",
     model_dir |-> None,
     iterations_per_loop |-> 1000,
     num_shards |-> 8,
     log_device_placement |-> FALSE,
     save_checkpoints_steps |-> 1000,
     num_gpus |-> 1,
     gpu_order |-> "",
     shard_to_cpu |-> FALSE,
     num_async_replicas |-> 1,
     use_tpu |-> TRUE]

\* the argument records the driver calls create_run_config with
RunConfigArgs ==
    [master : {""},
     model_dir : {None, Some("/model")},
     iterations_per_loop : {500, 1000},
     num_shards : (-1)..MaxShards,
     log_device_placement : {FALSE},
     save_checkpoints_steps : {1000},
     num_gpus : (-1)..MaxGpus,
     gpu_order : {"", "1 0"},
     shard_to_cpu : BOOLEAN,
     num_async_replicas : 0..MaxReplicas,
     use_tpu : BOOLEAN]

ScheduleTrain == <<"t", "r", "a", "i", "n">>
ScheduleTrainAndEvaluate == DefaultParams.schedule
ScheduleContinuousEval ==
    <<"c", "o", "n", "t", "i", "n", "u", "o", "u", "s", "_", "e", "v", "a", "l">>
ScheduleEvaluate == <<"e", "v", "a", "l", "u", "a", "t", "e">>
ScheduleTrainEva == <<"t", "r", "a", "i", "n", "_", "e", "v", "a">>

\* the schedule labels the driver passes to create_estimator
Schedules ==
    SeqsUpTo({"e", "v", "a", "l"}, MaxSchedLen)
        \cup {ScheduleTrain, ScheduleTrainAndEvaluate, ScheduleContinuousEval,
              ScheduleEvaluate, ScheduleTrainEva}

\* the run configurations the driver passes to create_estimator
EstimatorRunConfigs ==
    {create_run_config([DefaultRunConfigArgs EXCEPT !.num_shards = n,
                                                    !.use_tpu = t]) :
        n \in (-1)..MaxShards, t \in BOOLEAN}

\* the argument records the driver calls create_estimator with
EstimatorArgs ==
    [model_name : {"transformer"},
     run_config : EstimatorRunConfigs,
     schedule : Schedules,
     use_tpu : BOOLEAN]

\* the hyphen-delimited problem strings the driver passes to add_problem_hparams
ProblemStrings == SeqsUpTo({"a", "b", "-"}, MaxProblemLen)

\* the run configurations the driver passes to create_experiment
ExperimentRunConfigs ==
    {create_run_config([DefaultRunConfigArgs EXCEPT !.use_tpu = t]) : t \in BOOLEAN}

\* the values the driver gives create_experiment's parameters, in ParamNames' order
ExperimentValues ==
    {<<"transformer", <<"a", "-", "b">>, "/d1", 1000, 10, 100, ScheduleTrain, TRUE>>,
     <<"transformer", <<"b", "-", "a">>, "/d2", 1000, 10, 100,
       ScheduleTrainAndEvaluate, TRUE>>,
     <<"transformer", <<"a", "-", "b">>, "/d2", 1000, 10, 100,
       ScheduleTrainAndEvaluate, FALSE>>,
     <<"transformer", <<"b">>, "/d1", 1000, 10, 100, ScheduleTrain, FALSE>>,
     <<"transformer", <<"a", "-">>, "/d1", 1000, 10, 100, ScheduleTrain, TRUE>>}

\* the first n of the values v positionally and those named in names by keyword
Passing(v, n, names) ==
    [args |-> SubSeq(v, 1, n),
     kwargs |-> [name \in names |->
                    v[CHOOSE j \in 1..Len(ParamNames) : ParamNames[j] = name]]]

\* the (*args, **kwargs) the driver passes after run_config and hparams
ExtraArguments ==
    {Passing(v, 8, {}) : v \in ExperimentValues}
        \cup UNION {{Passing(v, 6, {}),
                     Passing(v, 6, {"schedule", "use_tpu"}),
                     Passing(v, 0, ParamNameSet),
                     Passing(v, 7, {"schedule"}),
                     Passing(v, 5, {}),
                     [args |-> SubSeq(v, 1, 6), kwargs |-> [hparams |-> TRUE]],
                     [args |-> v \o <<TRUE>>, kwargs |-> <<>>]} :
                    v \in {w \in ExperimentValues : w[3] = "/d2" /\ w[8]}}

NoCall == [op |-> "none", args |-> <<>>]
Pending == [pending |-> TRUE]
Returned == "pending" \notin DOMAIN result

\* the per-shard batch sizes the hyperparameters object may carry
PerShardBatchSizes == {2, 16}

\* the hyperparameters object before this module has attached anything to it
InitialHParams == [tpu_batch_size_per_shard : {16}]

Init ==
    /\ hparams \in InitialHParams
    /\ closure = NoObject
    /\ call = NoCall
    /\ result = [value |-> NoObject, error |-> NoError]

CallAddProblemHparams ==
    \E problems \in ProblemStrings :
        LET out == add_problem_hparams(hparams, problems)
        IN  /\ call' = [op |-> "add_problem_hparams", args |-> [problems |-> problems]]
            /\ hparams' = out.hparams
            /\ result' = [value |-> NoObject, error |-> out.error]
            /\ UNCHANGED closure

CallCreateExperiment ==
    \E run_config \in ExperimentRunConfigs, extra \in ExtraArguments :
        LET out == call_create_experiment(run_config, hparams,
                                          extra.args, extra.kwargs)
        IN  /\ call' = [op |-> "create_experiment",
                        args |-> [run_config |-> run_config,
                                  args |-> extra.args, kwargs |-> extra.kwargs]]
            /\ hparams' = out.hparams
            /\ result' = [value |-> out.value, error |-> out.error,
                          locals |-> out.locals]
            /\ UNCHANGED closure

CallCreateExperimentFn ==
    \E extra \in ExtraArguments :
        /\ call' = [op |-> "create_experiment_fn", args |-> extra]
        /\ closure' = create_experiment_fn(extra.args, extra.kwargs)
        /\ result' = [value |-> closure', error |-> NoError]
        /\ UNCHANGED hparams

CallExperimentFn ==
    /\ closure # NoObject
    /\ \E run_config \in ExperimentRunConfigs :
        LET out == experiment_fn(closure, run_config, hparams)
        IN  /\ call' = [op |-> "experiment_fn",
                        args |-> [run_config |-> run_config]]
            /\ hparams' = out.hparams
            /\ result' = [value |-> out.value, error |-> out.error,
                          locals |-> out.locals]
            /\ UNCHANGED closure

Next ==
    \/ CallAddProblemHparams
    \/ CallCreateExperiment
    \/ CallCreateExperimentFn
    \/ CallExperimentFn

Spec == Init /\ [][Next]_vars

(***************************************************************************)
(* create_run_config and create_estimator are functions of their arguments *)
(* (and, for create_estimator, of the hyperparameters it reads): each is    *)
(* checked from the initial states that hold one call's arguments.          *)
(***************************************************************************)
InitRunConfig ==
    /\ hparams \in InitialHParams
    /\ closure = NoObject
    /\ call \in {[op |-> "create_run_config", args |-> a] : a \in RunConfigArgs}
    /\ result = Pending

CallCreateRunConfig ==
    /\ call.op = "create_run_config"
    /\ result = Pending
    /\ result' = [value |-> create_run_config(call.args), error |-> NoError]
    /\ UNCHANGED <<hparams, closure, call>>

NextRunConfig == CallCreateRunConfig

SpecRunConfig == InitRunConfig /\ [][NextRunConfig]_vars

InitEstimator ==
    /\ hparams \in [tpu_batch_size_per_shard : PerShardBatchSizes]
    /\ closure = NoObject
    /\ call \in {[op |-> "create_estimator", args |-> a] : a \in EstimatorArgs}
    /\ result = Pending

CallCreateEstimator ==
    /\ call.op = "create_estimator"
    /\ result = Pending
    /\ result' = create_estimator(call.args.model_name, hparams, call.args.run_config,
                                  call.args.schedule, call.args.use_tpu)
    /\ UNCHANGED <<hparams, closure, call>>

NextEstimator == CallCreateEstimator

SpecEstimator == InitEstimator /\ [][NextEstimator]_vars

(***************************************************************************)
(* Properties of create_run_config, checked under SpecRunConfig.           *)
(***************************************************************************)
RunConfigReturned == Returned /\ call.op = "create_run_config"

\* C1: with use_tpu=True the returned configuration's tpu_config carries the
\* num_shards and iterations_per_loop arguments, config.use_tpu is True and
\* t2t_device_info is empty, whatever the GPU arguments were.
C1_TpuConfigCarriesArguments ==
    (RunConfigReturned /\ call.args.use_tpu) =>
        /\ "tpu_config" \in DOMAIN result.value
        /\ result.value.tpu_config.num_shards = call.args.num_shards
        /\ result.value.tpu_config.iterations_per_loop = call.args.iterations_per_loop
        /\ result.value.use_tpu = TRUE
        /\ DOMAIN result.value.t2t_device_info = {}

C1_Witness ==
    /\ RunConfigReturned
    /\ call.args.use_tpu
    /\ call.args.num_shards = 8
    /\ call.args.iterations_per_loop = 500
    /\ call.args.num_gpus = 2
    /\ call.args.shard_to_cpu
    /\ result.value.tpu_config.num_shards = 8
    /\ result.value.tpu_config.iterations_per_loop = 500
    /\ result.value.t2t_device_info = <<>>

\* C2: with use_tpu=False the device info's num_shards is num_gpus + 1 when
\* shard_to_cpu is true and num_gpus when it is false, clamped below at 1; the
\* other four entries are the arguments unchanged; no tpu_config is built.
C2_DeviceInfoShardCount ==
    (RunConfigReturned /\ ~call.args.use_tpu) =>
        LET info == result.value.t2t_device_info
            wanted == IF call.args.shard_to_cpu
                      THEN call.args.num_gpus + 1
                      ELSE call.args.num_gpus
        IN  /\ DOMAIN info = {"num_gpus", "gpu_order", "shard_to_cpu",
                              "num_shards", "num_async_replicas"}
            /\ info.num_shards = IF wanted < 1 THEN 1 ELSE wanted
            /\ info.num_gpus = call.args.num_gpus
            /\ info.gpu_order = call.args.gpu_order
            /\ info.shard_to_cpu = call.args.shard_to_cpu
            /\ info.num_async_replicas = call.args.num_async_replicas
            /\ "tpu_config" \notin DOMAIN result.value
            /\ result.value.use_tpu = FALSE

C2_Witness ==
    /\ RunConfigReturned
    /\ ~call.args.use_tpu
    /\ call.args.num_gpus = 2
    /\ call.args.shard_to_cpu
    /\ result.value.t2t_device_info.num_shards = 3

\* C3, as claimed: every returned configuration has tpu_config.num_shards >= 1
\* in accelerator mode and t2t_device_info["num_async_replicas"] >= 1 in
\* generic mode.
C3_CountsAtLeastOne ==
    RunConfigReturned =>
        /\ call.args.use_tpu => result.value.tpu_config.num_shards >= 1
        /\ ~call.args.use_tpu =>
               result.value.t2t_device_info.num_async_replicas >= 1

\* C3, amended: the count the arithmetic keeps at 1 or more is the generic
\* mode's t2t_device_info["num_shards"]; tpu_config.num_shards and
\* num_async_replicas are the arguments as passed, so each is >= 1 exactly
\* when its argument is.
C3_OnlyDeviceShardCountClamped ==
    RunConfigReturned =>
        /\ ~call.args.use_tpu =>
               /\ result.value.t2t_device_info.num_shards >= 1
               /\ result.value.t2t_device_info.num_async_replicas >= 1
                      <=> call.args.num_async_replicas >= 1
        /\ call.args.use_tpu =>
               (result.value.tpu_config.num_shards >= 1
                    <=> call.args.num_shards >= 1)

C3_Witness ==
    /\ RunConfigReturned
    /\ ~call.args.use_tpu
    /\ call.args.num_gpus = -1
    /\ ~call.args.shard_to_cpu
    /\ call.args.num_async_replicas = 0
    /\ result.value.t2t_device_info.num_shards = 1
    /\ result.value.t2t_device_info.num_async_replicas = 0

(***************************************************************************)
(* Properties of create_estimator, checked under SpecEstimator.            *)
(***************************************************************************)
EstimatorBuilt ==
    Returned /\ call.op = "create_estimator" /\ result.error = NoError

\* whether the characters e, v, a, l stand next to each other in the label
MentionsEval(schedule) ==
    \E i \in 1..Len(schedule) :
        /\ i + 3 <= Len(schedule)
        /\ schedule[i] = "e"
        /\ schedule[i + 1] = "v"
        /\ schedule[i + 2] = "a"
        /\ schedule[i + 3] = "l"

\* C4: with use_tpu=True the training batch size is tpu_batch_size_per_shard
\* times tpu_config.num_shards, and when the label contains "eval" the
\* evaluation batch size is twice that; with use_tpu=False a generic estimator
\* is built and no batch size is computed.
C4_BatchSizes ==
    EstimatorBuilt =>
        IF call.args.use_tpu
        THEN /\ result.value.cls = "tf.contrib.tpu.TPUEstimator"
             /\ result.value.train_batch_size =
                    hparams.tpu_batch_size_per_shard
                        * call.args.run_config.tpu_config.num_shards
             /\ MentionsEval(call.args.schedule) =>
                    result.value.eval_batch_size =
                        Some(2 * result.value.train_batch_size)
        ELSE /\ result.value.cls = "tf.estimator.Estimator"
             /\ "train_batch_size" \notin DOMAIN result.value
             /\ "eval_batch_size" \notin DOMAIN result.value

C4_Witness ==
    /\ EstimatorBuilt
    /\ call.args.use_tpu
    /\ hparams.tpu_batch_size_per_shard = 16
    /\ call.args.run_config.tpu_config.num_shards = 8
    /\ call.args.schedule = ScheduleTrainAndEvaluate
    /\ result.value.train_batch_size = 128
    /\ result.value.eval_batch_size = Some(256)

\* C5: with use_tpu=True the evaluation batch size is None if and only if
\* "eval" is not a substring of the schedule label, and the training batch
\* size is the same for every label.
C5_EvalBatchSizeSuppressed ==
    (EstimatorBuilt /\ call.args.use_tpu) =>
        /\ result.value.eval_batch_size = None
               <=> ~MentionsEval(call.args.schedule)
        /\ \A other \in {<<>>, ScheduleTrain, ScheduleEvaluate,
                         ScheduleTrainAndEvaluate} :
               create_estimator(call.args.model_name, hparams, call.args.run_config,
                                other, TRUE).value.train_batch_size
                   = result.value.train_batch_size

C5_Witness ==
    /\ EstimatorBuilt
    /\ call.args.use_tpu
    /\ hparams.tpu_batch_size_per_shard = 16
    /\ call.args.run_config.tpu_config.num_shards = 8
    /\ call.args.schedule = ScheduleTrain
    /\ result.value.train_batch_size = 128
    /\ result.value.eval_batch_size = None

(***************************************************************************)
(* Properties of add_problem_hparams, create_experiment and                *)
(* create_experiment_fn, checked under Spec.                               *)
(***************************************************************************)
\* the positions of the hyphens of the problem string s
Hyphens(s) == {i \in 1..Len(s) : s[i] = "-"}

\* the number of hyphen-separated names in s
NameCount(s) == Cardinality(Hyphens(s)) + 1

\* the position of the k-th hyphen of s; 0 before the first name and
\* Len(s) + 1 after the last
HyphenAt(s, k) ==
    IF k = 0 THEN 0
    ELSE IF k = NameCount(s) THEN Len(s) + 1
    ELSE CHOOSE i \in Hyphens(s) : Cardinality({j \in Hyphens(s) : j <= i}) = k

\* the k-th hyphen-separated name of s
NameAt(s, k) == SubSeq(s, HyphenAt(s, k - 1) + 1, HyphenAt(s, k) - 1)

\* the names of s before the first one that is not registered
RegisteredPrefix(s) ==
    IF \A k \in 1..NameCount(s) : NameAt(s, k) \in RegisteredProblems
    THEN NameCount(s)
    ELSE (CHOOSE k \in 1..NameCount(s) :
              /\ NameAt(s, k) \notin RegisteredProblems
              /\ \A j \in 1..(k - 1) : NameAt(s, j) \in RegisteredProblems) - 1

\* both lists hold exactly the entries of the first n names of s, in order
ListsHoldNames(s, n) ==
    /\ {"problems", "problem_instances"} \subseteq DOMAIN hparams
    /\ Len(hparams.problem_instances) = n
    /\ Len(hparams.problems) = n
    /\ \A i \in 1..n :
           /\ hparams.problem_instances[i] = [cls |-> "Problem", name |-> NameAt(s, i)]
           /\ hparams.problems[i] = get_hparams(hparams.problem_instances[i], hparams)

\* C6: after a successful add_problem_hparams(hparams, s) both lists have as
\* many entries as s has hyphen-separated names, the i-th instance is the
\* registry's problem for the i-th name and the i-th hyperparameter set is the
\* one it derived, whatever the lists held before the call.
C6_ListsReflectLastCall ==
    (call.op = "add_problem_hparams" /\ result.error = NoError) =>
        /\ ListsHoldNames(call.args.problems, NameCount(call.args.problems))
        /\ \A i \in 1..NameCount(call.args.problems) :
               NameAt(call.args.problems, i) \in RegisteredProblems

C6_Witness ==
    /\ call.op = "add_problem_hparams"
    /\ result.error = NoError
    /\ call.args.problems = <<"b", "-", "a">>
    /\ hparams.problem_instances[1].name = <<"b">>
    /\ hparams.problem_instances[2].name = <<"a">>
    /\ "data_dir" \in DOMAIN hparams

\* C7: when the k-th name is the first one not in the registry, the call fails
\* with the lookup error and both lists hold exactly the entries of the k-1
\* names before it.
C7_FailureKeepsPrefix ==
    call.op = "add_problem_hparams" =>
        /\ result.error # NoError
               <=> \E k \in 1..NameCount(call.args.problems) :
                       NameAt(call.args.problems, k) \notin RegisteredProblems
        /\ result.error # NoError =>
               /\ result.error = "LookupError"
               /\ ListsHoldNames(call.args.problems,
                                 RegisteredPrefix(call.args.problems))

C7_Witness ==
    /\ call.op = "add_problem_hparams"
    /\ result.error = "LookupError"
    /\ call.args.problems = <<"a", "-", "-">>
    /\ Len(hparams.problem_instances) = 1
    /\ Len(hparams.problems) = 1
    /\ hparams.problem_instances[1].name = <<"a">>

\* C8: calling the callable create_experiment_fn returned, with a run
\* configuration and the hyperparameters, gives the result, the mutation of
\* the hyperparameters or the error of create_experiment called with those
\* two followed by the captured arguments; creating the callable changes
\* nothing and raises nothing.
C8_ExperimentFnForwards ==
    [][/\ call'.op = "experiment_fn" =>
              LET direct == call_create_experiment(call'.args.run_config, hparams,
                                                   closure.args, closure.kwargs)
              IN  /\ result'.value = direct.value
                  /\ result'.error = direct.error
                  /\ hparams' = direct.hparams
       /\ call'.op = "create_experiment_fn" =>
              /\ hparams' = hparams
              /\ result'.error = NoError
              /\ closure'.args = call'.args.args
              /\ closure'.kwargs = call'.args.kwargs]_vars

C8_Witness ==
    /\ call.op = "experiment_fn"
    /\ closure.kwargs = [schedule |-> ScheduleTrainAndEvaluate, use_tpu |-> TRUE]
    /\ result.error = NoError
    /\ result.value.cls = "tf.contrib.learn.Experiment"
    /\ result.value.estimator.eval_batch_size = Some(256)
    /\ hparams.data_dir = "/d2"

\* a call of create_experiment, made directly or through the callable
ExperimentCalled == call.op \in {"create_experiment", "experiment_fn"}

\* the (*args, **kwargs) of the call of create_experiment
ExperimentExtra ==
    IF call.op = "experiment_fn"
    THEN [args |-> closure.args, kwargs |-> closure.kwargs]
    ELSE [args |-> call.args.args, kwargs |-> call.args.kwargs]

\* the parameters that call bound
ExperimentParams == bind_parameters(ExperimentExtra.args, ExperimentExtra.kwargs)

\* C9: in every experiment returned, both input functions come from the first
\* problem named in the problem string, the per-iteration training-step count
\* is min_eval_frequency, and train_steps, eval_steps and min_eval_frequency
\* are the arguments unchanged.
C9_InputFnsFromFirstProblem ==
    (ExperimentCalled /\ result.error = NoError) =>
        LET p == ExperimentParams.params
        IN  /\ result.value.train_input_fn =
                   [cls |-> "input_fn", problem |-> NameAt(p.problem_name, 1),
                    mode |-> "train"]
            /\ result.value.eval_input_fn =
                   [cls |-> "input_fn", problem |-> NameAt(p.problem_name, 1),
                    mode |-> "eval"]
            /\ result.value.train_steps_per_iteration = p.min_eval_frequency
            /\ result.value.train_steps = p.train_steps
            /\ result.value.eval_steps = p.eval_steps
            /\ result.value.min_eval_frequency = p.min_eval_frequency

C9_Witness ==
    /\ ExperimentCalled
    /\ result.error = NoError
    /\ ExperimentParams.params.problem_name = <<"b", "-", "a">>
    /\ Len(hparams.problem_instances) = 2
    /\ result.value.train_input_fn.problem = <<"b">>
    /\ result.value.eval_input_fn.problem = <<"b">>
    /\ result.value.train_steps_per_iteration = 100

\* C10: create_experiment attaches data_dir, attaches the problems, builds the
\* estimator, derives the input functions and assembles the experiment, in
\* that order: an unregistered name raises the lookup error with data_dir
\* attached, the lists holding the names before it and nothing built, and
\* once the estimator step is reached the instance list is not empty.
C10_StepsInOrder ==
    (ExperimentCalled /\ ExperimentParams.error = NoError) =>
        LET p == ExperimentParams.params
            allRegistered == \A k \in 1..NameCount(p.problem_name) :
                                 NameAt(p.problem_name, k) \in RegisteredProblems
        IN  /\ "data_dir" \in DOMAIN hparams
            /\ hparams.data_dir = p.data_dir
            /\ ~allRegistered =>
                   /\ result.error = "LookupError"
                   /\ result.value = NoObject
                   /\ result.locals = NoLocals
                   /\ ListsHoldNames(p.problem_name, RegisteredPrefix(p.problem_name))
            /\ allRegistered =>
                   /\ result.error # "LookupError"
                   /\ ListsHoldNames(p.problem_name, NameCount(p.problem_name))
                   /\ Len(hparams.problem_instances) >= 1
            /\ result.locals.estimator # NoObject => allRegistered
            /\ result.locals.train_input_fn # NoObject =>
                   result.locals.estimator # NoObject
            /\ result.locals.eval_input_fn # NoObject =>
                   result.locals.train_input_fn # NoObject
            /\ result.value # NoObject <=> result.locals.eval_input_fn # NoObject
            /\ result.value # NoObject <=> result.error = NoError

C10_Witness ==
    /\ ExperimentCalled
    /\ ExperimentParams.error = NoError
    /\ ExperimentParams.params.problem_name = <<"a", "-">>
    /\ ExperimentParams.params.use_tpu
    /\ "tpu_config" \notin DOMAIN call.args.run_config
    /\ result.error = "LookupError"
    /\ hparams.data_dir = "/d1"
    /\ Len(hparams.problem_instances) = 1
    /\ result.locals.estimator = NoObject

====
